---- MODULE Spec2Model ----
(***************************************************************************)
(* Ingrosmart agent: the retry engine (withRetry), the content classifier  *)
(* (ensureCsv), the login state machine, the download-with-relogin flow    *)
(* and the top-level run (runAgent), as state machines.                    *)
(*                                                                         *)
(* Spec      : one run of runAgent (agent.js).                             *)
(* SpecRetry : withRetry (utils.js) driven by an arbitrary operation.      *)
(* SpecCalls : login, downloadCsv, clickFirst, fillFirst and ensureCsv,     *)
(*             each called on its own over all its inputs.                 *)
(* SpecStore : deliver and pruneHistory (storage.js, both revisions) called *)
(*             repeatedly on one delivery target.                          *)
(* SpecLive  : Spec when every awaited step returns or times out.          *)
(***************************************************************************)
EXTENDS Integers, Sequences, FiniteSets, TLC

VARIABLES
    pc,            \* position of the flow (runAgent line / harness state)
    config,        \* agent.js config record (the part the flow reads)
    browser,       \* runAgent's `browser` is defined
    context,       \* runAgent's `context` is defined
    page,          \* runAgent's `page` is defined
    rt,            \* frame of the withRetry call in progress
    calls,         \* invocations of the operation by the current withRetry
    sleeps,        \* log of the sleeps of withRetry: <<[task, delay], ...>>
    opErr,         \* error thrown by the most recent invocation of the operation
    outcome,       \* how the current/last withRetry call ended
    trace,         \* log of the run: attempts, login calls, export fetches, sleeps
    okBuffers,     \* ids of buffers from a 200 response that ensureCsv accepted
    result,        \* value withRetry(downloadWithRelogin) returned
    delivered,     \* buffers handed to deliver, in order
    files,         \* what deliver wrote
    closed,        \* resources whose close() was invoked, in order
    exitCode,      \* -1 while running, else the exit code of the process
    fn,            \* the most recent call of a function called on its own
    store          \* the delivery target: its files, and the storage.js in use

vars == <<pc, config, browser, context, page, rt, calls, sleeps, opErr, outcome,
          trace, okBuffers, result, delivered, files, closed, exitCode, fn,
          store>>

runVars == <<config, browser, context, page, trace, okBuffers,
             result, delivered, files, closed, exitCode, fn, store>>

----------------------------------------------------------------------------
(* Bounds of the withRetry harness *)

MaxRetries == 3

BaseDelays == {100, 1500, 2000, 3000}

MaxDelays == {150, 5000, 30000}

OpValues == {"success", "other"}

OpMessages == {"Test retry error", "Another error"}

(* Program constants *)

DefaultRetries == 2

DefaultMaxDelayMs == 30000

LoginBaseDelayMs == 3000

DownloadBaseDelayMs == 2000

OkStatus == 200

----------------------------------------------------------------------------
(* Values *)

None == [kind |-> "none"]

\* no function has been called on its own
NoCall == [op |-> "idle"]

\* no delivery target is looked at
NoStore == [revision |-> "none"]

Err(msg, id) == [kind |-> "error", msg |-> msg, id |-> id]

Min(a, b) == IF a <= b THEN a ELSE b

----------------------------------------------------------------------------
(* withRetry, utils.js *)

\* the exponent taken from `attempt` instead of `attempt - 1`
BackoffDelayOffByOne(baseDelayMs, maxDelayMs, attempt) ==
    Min(baseDelayMs * (2 ^ attempt), maxDelayMs)

\* Math.min(baseDelayMs * Math.pow(2, attempt - 1), maxDelayMs)
BackoffDelay(baseDelayMs, maxDelayMs, attempt) ==
    Min(baseDelayMs * (2 ^ (attempt - 1)), maxDelayMs)

\* the loop test written `attempt <= retries`
LoopTestOneShort(f) ==
    IF f.attempt <= f.retries
    THEN [f EXCEPT !.st = "calling"]
    ELSE [f EXCEPT !.st = "thrown"]

\* the loop test letting one attempt too many through
LoopTestOneMore(f) ==
    IF f.attempt <= f.retries + 2
    THEN [f EXCEPT !.st = "calling"]
    ELSE [f EXCEPT !.st = "thrown"]

\* the for-loop test `attempt <= retries + 1`: enter the body or fall out
\* of the loop to `throw lastError`
LoopTest(f) ==
    IF f.attempt <= f.retries + 1
    THEN [f EXCEPT !.st = "calling"]
    ELSE [f EXCEPT !.st = "thrown"]

\* destructuring of the options, `let lastError`, `attempt = 1`
WithRetryStart(taskName, retries, baseDelayMs, maxDelayMs) ==
    LoopTest([taskName |-> taskName, retries |-> retries,
              baseDelayMs |-> baseDelayMs, maxDelayMs |-> maxDelayMs,
              attempt |-> 1, lastError |-> None, value |-> None,
              delay |-> 0, st |-> "calling"])

\* `await fn()` without the `return`: the loop goes on after a success
OnSuccessNoReturn(f, v) == LoopTest([f EXCEPT !.attempt = @ + 1, !.value = v])

\* `return await fn()` when fn resolves with v
OnSuccess(f, v) == [f EXCEPT !.st = "returned", !.value = v]

\* the catch block keeping the first error instead of the last
OnFailureKeepFirst(f, e) ==
    LET g == [f EXCEPT !.lastError = IF @ = None THEN e ELSE @] IN
    IF f.attempt <= f.retries
    THEN [g EXCEPT !.st = "sleeping",
                   !.delay = BackoffDelay(f.baseDelayMs, f.maxDelayMs, f.attempt)]
    ELSE LoopTest([g EXCEPT !.attempt = @ + 1])

\* the catch block when fn rejects with e
OnFailure(f, e) ==
    LET g == [f EXCEPT !.lastError = e] IN
    IF f.attempt <= f.retries
    THEN [g EXCEPT !.st = "sleeping",
                   !.delay = BackoffDelay(f.baseDelayMs, f.maxDelayMs, f.attempt)]
    ELSE LoopTest([g EXCEPT !.attempt = @ + 1])

\* `await sleep(delay)` resolves, then `attempt++` and the loop test
AfterSleep(f) == LoopTest([f EXCEPT !.attempt = @ + 1])

\* log entry of a sleep that OnFailure started
SleepLog(f, g) ==
    IF g.st = "sleeping"
    THEN Append(sleeps, [task |-> f.taskName, delay |-> g.delay])
    ELSE sleeps

----------------------------------------------------------------------------
(* SpecRetry: withRetry around an arbitrary operation *)

IdleRun ==
    /\ config = [screenshotOnError |-> FALSE]
    /\ browser = FALSE /\ context = FALSE /\ page = FALSE
    /\ trace = <<>> /\ okBuffers = {}
    /\ result = None /\ delivered = <<>> /\ files = <<>>
    /\ closed = <<>> /\ exitCode = -1
    /\ fn = NoCall

RetryInit ==
    /\ pc = "harness"
    /\ store = NoStore
    /\ \E r \in 0..MaxRetries, b \in BaseDelays, m \in MaxDelays :
          rt = WithRetryStart("Task", r, b, m)
    /\ calls = 0
    /\ sleeps = <<>>
    /\ opErr = None
    /\ outcome = None
    /\ IdleRun

\* fn() resolves
OpReturns ==
    /\ pc = "harness" /\ rt.st = "calling"
    /\ \E v \in OpValues :
          /\ rt' = OnSuccess(rt, v)
          /\ outcome' = [kind |-> "returned", value |-> v, at |-> calls + 1]
    /\ calls' = calls + 1
    /\ UNCHANGED <<pc, sleeps, opErr, runVars>>

\* fn() rejects
OpThrows ==
    /\ pc = "harness" /\ rt.st = "calling"
    /\ \E m \in OpMessages :
          LET e == Err(m, calls + 1)
              g == OnFailure(rt, e) IN
          /\ rt' = g
          /\ opErr' = e
          /\ sleeps' = SleepLog(rt, g)
          /\ outcome' = IF g.st = "thrown"
                        THEN [kind |-> "thrown", error |-> g.lastError]
                        ELSE outcome
    /\ calls' = calls + 1
    /\ UNCHANGED <<pc, runVars>>

\* the timer of sleep(delay) fires
SleepDone ==
    /\ pc = "harness" /\ rt.st = "sleeping"
    /\ rt' = AfterSleep(rt)
    /\ UNCHANGED <<pc, calls, sleeps, opErr, outcome, runVars>>

RetryNext == OpReturns \/ OpThrows \/ SleepDone

SpecRetry == RetryInit /\ [][RetryNext]_vars

----------------------------------------------------------------------------
(* Claims about withRetry, checked under SpecRetry *)

\* C6: withRetry invokes the operation at most retries+1 times; when every
\* invocation fails it has invoked it exactly retries+1 times when it throws,
\* and it throws only then.
C6_AtMostRetriesPlusOne ==
    pc = "harness" =>
        /\ calls <= rt.retries + 1
        /\ (rt.st = "thrown" => calls = rt.retries + 1 /\ outcome.kind = "thrown")
        /\ (outcome.kind # "returned" /\ calls = rt.retries + 1 => rt.st = "thrown")

C6_Witness ==
    /\ pc = "harness" /\ rt.retries = DefaultRetries
    /\ rt.st = "thrown" /\ calls = 3

\* C7: when the operation first succeeds on its k-th invocation, withRetry has
\* returned that invocation's value, the operation was invoked exactly k times
\* and k-1 sleeps happened: nothing runs after the success.
C7_ReturnsFirstSuccess ==
    pc = "harness" /\ outcome.kind = "returned" =>
        /\ rt.st = "returned"
        /\ rt.value = outcome.value
        /\ calls = outcome.at
        /\ outcome.at <= rt.retries + 1
        /\ Len(sleeps) = outcome.at - 1

C7_Witness ==
    /\ pc = "harness" /\ rt.st = "returned" /\ rt.value = "success"
    /\ rt.retries = DefaultRetries /\ calls = 2 /\ Len(sleeps) = 1

\* C8: the i-th sleep of withRetry lasts min(baseDelayMs * 2^(i-1), maxDelayMs)
\* and follows the failure of attempt i <= retries; no sleep follows the last
\* failed attempt, so an always-failing operation causes exactly `retries`
\* sleeps, none longer than maxDelayMs.
C8_BackoffDelays ==
    pc = "harness" =>
        /\ \A i \in 1..Len(sleeps) :
              /\ sleeps[i].delay =
                    (IF rt.baseDelayMs * (2 ^ (i - 1)) <= rt.maxDelayMs
                     THEN rt.baseDelayMs * (2 ^ (i - 1)) ELSE rt.maxDelayMs)
              /\ sleeps[i].delay <= rt.maxDelayMs
              /\ i <= rt.retries
        /\ (rt.st = "sleeping" => Len(sleeps) = calls /\ calls <= rt.retries)
        /\ (rt.st = "calling" => Len(sleeps) = calls)
        /\ (rt.st = "thrown" => Len(sleeps) = rt.retries)

C8_Witness ==
    /\ pc = "harness" /\ rt.st = "thrown" /\ rt.retries = 2
    /\ rt.baseDelayMs = 100 /\ rt.maxDelayMs = 30000
    /\ Len(sleeps) = 2 /\ sleeps[1].delay = 100 /\ sleeps[2].delay = 200

\* C9: when every attempt failed, the error withRetry throws is the error
\* object the last invocation of the operation threw, unwrapped.
C9_RethrowsLastError ==
    pc = "harness" /\ rt.st = "thrown" =>
        /\ outcome.kind = "thrown"
        /\ outcome.error = opErr
        /\ outcome.error.id = calls

C9_Witness ==
    /\ pc = "harness" /\ rt.st = "thrown" /\ calls = 3
    /\ outcome.kind = "thrown" /\ outcome.error = opErr /\ opErr.id = 3

----------------------------------------------------------------------------
(* ensureCsv, utils.js *)

\* declared content types the export endpoint is modelled to answer with;
\* "" is the absent header (`|| ''` in downloadCsv)
ContentTypes ==
    {"", "text/csv", "TEXT/HTML; charset=UTF-8", "text/plain", "application/xhtml+xml"}

\* the content types ensureCsv is called with on its own: those of the export
\* endpoint, the other known-good types, a known-good type in upper case and a
\* header that names both an HTML and a known-good type
AllContentTypes ==
    ContentTypes \cup
    {"application/csv", "application/octet-stream", "application/x-csv",
     "Text/CSV", "text/html, text/csv"}

\* the content type compared without lower-casing it
ToLowerCaseOmitted(contentType) == contentType

\* contentType.toLowerCase()
ToLowerCase(contentType) ==
    CASE contentType = "TEXT/HTML; charset=UTF-8" -> "text/html; charset=utf-8"
      [] contentType = "Text/CSV"                 -> "text/csv"
      [] OTHER                                    -> contentType

\* the media-type tokens of ensureCsv that occur in a lower-cased content type
TypeTokens(lower) ==
    CASE lower = "text/csv"                 -> {"text/csv"}
      [] lower = "text/html; charset=utf-8" -> {"text/html"}
      [] lower = "application/xhtml+xml"    -> {"application/xhtml"}
      [] lower = "application/csv"          -> {"application/csv"}
      [] lower = "application/octet-stream" -> {"application/octet-stream"}
      [] lower = "application/x-csv"        -> {"application/x-csv"}
      [] lower = "text/html, text/csv"      -> {"text/html", "text/csv"}
      [] OTHER                              -> {}

\* lowerContentType.includes(token)
TypeIncludes(lower, token) == token \in TypeTokens(lower)

validTypes ==
    {"text/csv", "application/csv", "application/octet-stream", "application/x-csv"}

\* a body is its length and what its lower-cased, trimmed 2048-byte sample
\* contains: an HTML marker, a delimiter (, ; tab |), a newline
Body(len, marker, delim, newline) ==
    [len |-> len, marker |-> marker, delim |-> delim, newline |-> newline]

CsvBody == Body(27, FALSE, TRUE, TRUE)

HtmlBody == Body(48, TRUE, FALSE, FALSE)

EmptyBody == Body(0, FALSE, FALSE, FALSE)

ShortTextBody == Body(50, FALSE, FALSE, FALSE)

LongTextBody == Body(5000, FALSE, FALSE, TRUE)

Bodies == {CsvBody, HtmlBody, EmptyBody, ShortTextBody, LongTextBody}

\* buffer lengths around the limit of 100 bytes
Lengths == {0, 50, 99, 100, 101, 5000}

\* the bodies ensureCsv is called with on its own: an empty buffer has an
\* empty sample
AllBodies ==
    {b \in [len : Lengths, marker : BOOLEAN, delim : BOOLEAN, newline : BOOLEAN] :
        b.len = 0 => ~b.marker /\ ~b.delim /\ ~b.newline}

ShortLimit == 100

\* ensureCsv that trusts a known-good content type before looking at the body
ensureCsvTrustHeader(buffer, contentType) ==
    LET lower == ToLowerCase(contentType) IN
    IF TypeIncludes(lower, "text/html") \/ TypeIncludes(lower, "application/xhtml")
    THEN FALSE
    ELSE IF \E type \in validTypes : TypeIncludes(lower, type)
    THEN TRUE
    ELSE IF buffer.marker
    THEN FALSE
    ELSE IF ~buffer.delim /\ buffer.len > ShortLimit
    THEN FALSE
    ELSE buffer.delim \/ buffer.newline \/ buffer.len < ShortLimit

\* ensureCsv rejecting an empty buffer
ensureCsvRejectEmpty(buffer, contentType) ==
    LET lower == ToLowerCase(contentType) IN
    IF TypeIncludes(lower, "text/html") \/ TypeIncludes(lower, "application/xhtml")
    THEN FALSE
    ELSE IF buffer.len = 0
    THEN FALSE
    ELSE IF buffer.marker
    THEN FALSE
    ELSE IF ~buffer.delim /\ buffer.len > ShortLimit
    THEN FALSE
    ELSE IF \E type \in validTypes : TypeIncludes(lower, type)
    THEN TRUE
    ELSE buffer.delim \/ buffer.newline \/ buffer.len < ShortLimit

\* ensureCsv without the rejection of long bodies that have no delimiter
ensureCsvNoLengthCheck(buffer, contentType) ==
    LET lower == ToLowerCase(contentType) IN
    IF TypeIncludes(lower, "text/html") \/ TypeIncludes(lower, "application/xhtml")
    THEN FALSE
    ELSE IF buffer.marker
    THEN FALSE
    ELSE IF \E type \in validTypes : TypeIncludes(lower, type)
    THEN TRUE
    ELSE buffer.delim \/ buffer.newline \/ buffer.len < ShortLimit

ensureCsv(buffer, contentType) ==
    LET lower == ToLowerCase(contentType) IN
    IF TypeIncludes(lower, "text/html") \/ TypeIncludes(lower, "application/xhtml")
    THEN FALSE
    ELSE IF buffer.marker
    THEN FALSE
    ELSE IF ~buffer.delim /\ buffer.len > ShortLimit
    THEN FALSE
    ELSE IF \E type \in validTypes : TypeIncludes(lower, type)
    THEN TRUE
    ELSE buffer.delim \/ buffer.newline \/ buffer.len < ShortLimit

\* Math.min(buffer.length, 2048) takes at most this many bytes
SampleLimit == 2048

\* width in bytes of the shortest HTML marker, '<div'
MarkerWidth == 4

RawLengths == {50, 3000}

\* byte offsets at which a buffer may hold a marker, a delimiter or a newline:
\* well inside the sample, at its last byte, and right after it
Offsets == {10, 2047, 2048}

\* a buffer as bytes: its length and the offsets at which an HTML marker
\* starts, a delimiter stands, a newline stands; every other byte is a letter
WellFormed(raw) ==
    /\ \A p \in raw.markerAt : p + MarkerWidth <= raw.len
    /\ \A p \in raw.delimAt \cup raw.newlineAt : p < raw.len
    /\ raw.delimAt \cap raw.newlineAt = {}
    /\ \A m \in raw.markerAt :
          /\ \A q \in raw.delimAt \cup raw.newlineAt : q < m \/ q >= m + MarkerWidth
          /\ \A n \in raw.markerAt : n = m \/ n >= m + MarkerWidth \/ m >= n + MarkerWidth

RawBuffers ==
    {raw \in [len : RawLengths, markerAt : SUBSET Offsets,
              delimAt : SUBSET Offsets, newlineAt : SUBSET Offsets] :
        WellFormed(raw)}

\* a sample that is the whole buffer instead of its first 2048 bytes
SampleWholeBuffer(raw) ==
    LET sampleSize == raw.len IN
    Body(raw.len,
         \E p \in raw.markerAt : p + MarkerWidth <= sampleSize,
         \E p \in raw.delimAt : p < sampleSize,
         \E p \in raw.newlineAt : 0 < p /\ p < sampleSize - 1)

\* buffer.slice(0, sampleSize).toString('utf-8').toLowerCase().trim(), as what
\* ensureCsv reads of it: a marker counts when it lies wholly inside the
\* slice, a delimiter when it lies inside it, a newline when it lies inside
\* it and trim() does not remove it as leading or trailing white space
Sample(raw) ==
    LET sampleSize == Min(raw.len, SampleLimit) IN
    Body(raw.len,
         \E p \in raw.markerAt : p + MarkerWidth <= sampleSize,
         \E p \in raw.delimAt : p < sampleSize,
         \E p \in raw.newlineAt : 0 < p /\ p < sampleSize - 1)

----------------------------------------------------------------------------
(* clickFirst and fillFirst, agent.js *)

MaxSelectors == 3

\* what the page answers for one selector of a list:
\*   "locateThrows"  page.locator(selector).first() throws
\*   "checkThrows"   element.isVisible rejects (`.catch(() => false)`)
\*   "hidden"        isVisible resolves false
\*   "visible"       isVisible resolves true and the click/fill resolves
\*   "actionThrows"  isVisible resolves true and the click/fill rejects
Answers == {"locateThrows", "checkThrows", "hidden", "visible", "actionThrows"}

SelectorLists == UNION {[1..n -> Answers] : n \in 0..MaxSelectors}

PrimitiveStart ==
    [result |-> FALSE, threw |-> FALSE, returned |-> FALSE, probed |-> <<>>,
     acted |-> <<>>, attempted |-> 0]

\* one pass of clickFirst's loop without `return true` after the click
ClickStepNoStop(answer, i, acc) ==
    LET probed == [acc EXCEPT !.probed = Append(@, i)] IN
    CASE answer = "visible" ->
           [probed EXCEPT !.acted = Append(@, i), !.result = TRUE]
      [] answer = "actionThrows" ->
           [probed EXCEPT !.acted = Append(@, i), !.attempted = @ + 1]
      [] OTHER ->
           [probed EXCEPT !.attempted = @ + 1]

\* one pass of clickFirst's loop with the click outside the try/catch
ClickStepActionUncaught(answer, i, acc) ==
    LET probed == [acc EXCEPT !.probed = Append(@, i)] IN
    CASE answer = "visible" ->
           [probed EXCEPT !.acted = Append(@, i), !.result = TRUE,
                          !.returned = TRUE]
      [] answer = "actionThrows" ->
           [probed EXCEPT !.acted = Append(@, i), !.threw = TRUE,
                          !.returned = TRUE]
      [] OTHER ->
           [probed EXCEPT !.attempted = @ + 1]

\* one pass of clickFirst's loop, on selector i: locate, isVisible, click and
\* return true, with any error caught and counted
ClickStep(answer, i, acc) ==
    LET probed == [acc EXCEPT !.probed = Append(@, i)] IN
    CASE answer = "visible" ->
           [probed EXCEPT !.acted = Append(@, i), !.result = TRUE,
                          !.returned = TRUE]
      [] answer = "actionThrows" ->
           [probed EXCEPT !.acted = Append(@, i), !.attempted = @ + 1]
      [] OTHER ->
           [probed EXCEPT !.attempted = @ + 1]

RECURSIVE ClickFrom(_, _, _)
\* the for loop of clickFirst from selector i on
ClickFrom(list, i, acc) ==
    IF i > Len(list) \/ acc.returned THEN acc
    ELSE ClickFrom(list, i + 1, ClickStep(list[i], i, acc))

\* clickFirst(page, selectorList, options)
ClickFirst(list) == ClickFrom(list, 1, PrimitiveStart)

\* one pass of fillFirst's loop without the try/catch around its body
FillStepUncaught(answer, i, acc) ==
    LET probed == [acc EXCEPT !.probed = Append(@, i)] IN
    CASE answer = "visible" ->
           [probed EXCEPT !.acted = Append(@, i), !.result = TRUE,
                          !.returned = TRUE]
      [] answer = "actionThrows" ->
           [probed EXCEPT !.acted = Append(@, i), !.threw = TRUE,
                          !.returned = TRUE]
      [] answer = "locateThrows" ->
           [probed EXCEPT !.threw = TRUE, !.returned = TRUE]
      [] OTHER -> probed

\* one pass of fillFirst's loop, on selector i: locate, isVisible, fill and
\* return true, with any error caught
FillStep(answer, i, acc) ==
    LET probed == [acc EXCEPT !.probed = Append(@, i)] IN
    CASE answer = "visible" ->
           [probed EXCEPT !.acted = Append(@, i), !.result = TRUE,
                          !.returned = TRUE]
      [] answer = "actionThrows" ->
           [probed EXCEPT !.acted = Append(@, i)]
      [] OTHER -> probed

RECURSIVE FillFrom(_, _, _)
\* the for loop of fillFirst from selector i on
FillFrom(list, i, acc) ==
    IF i > Len(list) \/ acc.returned THEN acc
    ELSE FillFrom(list, i + 1, FillStep(list[i], i, acc))

\* fillFirst(page, selectorList, value)
FillFirst(list) == FillFrom(list, 1, PrimitiveStart)

----------------------------------------------------------------------------
(* login, agent.js *)

baseUrl == "https://www.ingrosmart.it"

\* URLs the page is modelled to be at after the settle wait
Urls ==
    {"https://www.ingrosmart.it/customer/account/login/",
     "https://www.ingrosmart.it/customer/account/",
     "https://www.ingrosmart.it/dashboard",
     "https://www.ingrosmart.it/",
     "https://www.ingrosmart.it",
     "https://www.ingrosmart.it/checkout/cart/"}

\* the path segments of the verification that occur in a URL
UrlSegments(url) ==
    CASE url = "https://www.ingrosmart.it/customer/account/login/"
                                                 -> {"/login", "/account"}
      [] url = "https://www.ingrosmart.it/customer/account/" -> {"/account"}
      [] url = "https://www.ingrosmart.it/dashboard"         -> {"/dashboard"}
      [] OTHER                                               -> {}

\* currentUrl.includes(segment)
UrlIncludes(url, segment) == segment \in UrlSegments(url)

\* config.baseUrl + '/'
BaseUrlSlash == "https://www.ingrosmart.it/"

\* the URL check of the verification
UrlSignal(currentUrl) ==
    /\ ~UrlIncludes(currentUrl, "/login")
    /\ \/ UrlIncludes(currentUrl, "/account")
       \/ UrlIncludes(currentUrl, "/dashboard")
       \/ currentUrl = BaseUrlSlash

\* what the site does during one login(page) call
AllLoginInputs ==
    [nav : BOOLEAN,        \* page.goto resolves
     cookie : BOOLEAN,     \* clickFirst(cookieAccept) returns true
     email : BOOLEAN,      \* fillFirst(email) returns true
     password : BOOLEAN,   \* fillFirst(password) returns true
     submit : BOOLEAN,     \* clickFirst(submit) returns true
     settle : BOOLEAN,     \* waitForLoadState resolves
     url : Urls,           \* page.url() after the wait
     indicator : BOOLEAN,  \* some account indicator is visible
     capture : BOOLEAN]    \* mkdir and page.screenshot resolve

\* one representative of the inputs that differ only in an answer login never
\* asks for: nothing is probed after the step that throws, and nothing is
\* captured when login returns
LoginInputs ==
    {in \in AllLoginInputs :
        /\ (~in.nav => ~in.cookie)
        /\ (~in.nav \/ ~in.email => ~in.password)
        /\ (~in.nav \/ ~in.email \/ ~in.password => ~in.submit /\ ~in.settle)
        /\ (~in.settle => in.url = baseUrl /\ ~in.indicator)
        /\ (UrlSignal(in.url) => ~in.indicator)
        /\ (in.settle /\ (UrlSignal(in.url) \/ in.indicator) => in.capture)}

LoginStart ==
    [navigated |-> FALSE, cookieAccepted |-> FALSE, emailFilled |-> FALSE,
     passwordFilled |-> FALSE, submitClicked |-> FALSE, enterPressed |-> FALSE,
     settled |-> FALSE, isLoggedIn |-> FALSE, captured |-> FALSE,
     returned |-> FALSE, message |-> "", captureTried |-> FALSE, steps |-> <<>>]

\* the try block of login without the check of passwordFilled
LoginTryNoPasswordCheck(in) ==
    LET s1 == [LoginStart EXCEPT
                  !.navigated = TRUE, !.cookieAccepted = in.cookie,
                  !.steps = IF in.cookie THEN <<"goto", "clickCookie">> ELSE <<"goto">>]
        s2 == [s1 EXCEPT !.emailFilled = TRUE, !.steps = Append(@, "fillEmail")]
        s3 == [s2 EXCEPT !.passwordFilled = TRUE, !.steps = Append(@, "fillPassword")]
        s4 == [s3 EXCEPT !.submitClicked = in.submit, !.enterPressed = ~in.submit,
                         !.steps = Append(@, IF in.submit THEN "clickSubmit"
                                             ELSE "pressEnter")]
        s5 == [s4 EXCEPT !.settled = TRUE, !.steps = Append(@, "settle")]
        isLoggedIn == UrlSignal(in.url) \/ in.indicator
    IN
    IF ~in.nav THEN [LoginStart EXCEPT !.message = "page.goto: Timeout 30000ms exceeded"]
    ELSE IF ~in.email THEN [s1 EXCEPT !.message = "Could not find email input field"]
    ELSE IF ~in.settle THEN [s4 EXCEPT !.message = "page.waitForLoadState: Timeout 30000ms exceeded"]
    ELSE IF ~isLoggedIn
    THEN [s5 EXCEPT !.message = "Login verification failed - still on login page or no account indicators found"]
    ELSE [s5 EXCEPT !.isLoggedIn = TRUE, !.returned = TRUE]

\* the try block of login that throws when no submit control is clicked
LoginTrySubmitRequired(in) ==
    LET s1 == [LoginStart EXCEPT
                  !.navigated = TRUE, !.cookieAccepted = in.cookie,
                  !.steps = IF in.cookie THEN <<"goto", "clickCookie">> ELSE <<"goto">>]
        s2 == [s1 EXCEPT !.emailFilled = TRUE, !.steps = Append(@, "fillEmail")]
        s3 == [s2 EXCEPT !.passwordFilled = TRUE, !.steps = Append(@, "fillPassword")]
        s4 == [s3 EXCEPT !.submitClicked = in.submit, !.enterPressed = ~in.submit,
                         !.steps = Append(@, IF in.submit THEN "clickSubmit"
                                             ELSE "pressEnter")]
        s5 == [s4 EXCEPT !.settled = TRUE, !.steps = Append(@, "settle")]
        isLoggedIn == UrlSignal(in.url) \/ in.indicator
    IN
    IF ~in.nav THEN [LoginStart EXCEPT !.message = "page.goto: Timeout 30000ms exceeded"]
    ELSE IF ~in.email THEN [s1 EXCEPT !.message = "Could not find email input field"]
    ELSE IF ~in.password THEN [s2 EXCEPT !.message = "Could not find password input field"]
    ELSE IF ~in.submit THEN [s3 EXCEPT !.message = "Could not find submit button"]
    ELSE IF ~in.settle THEN [s4 EXCEPT !.message = "page.waitForLoadState: Timeout 30000ms exceeded"]
    ELSE IF ~isLoggedIn
    THEN [s5 EXCEPT !.message = "Login verification failed - still on login page or no account indicators found"]
    ELSE [s5 EXCEPT !.isLoggedIn = TRUE, !.returned = TRUE]

\* the try block of login
LoginTry(in) ==
    LET s1 == [LoginStart EXCEPT
                  !.navigated = TRUE, !.cookieAccepted = in.cookie,
                  !.steps = IF in.cookie THEN <<"goto", "clickCookie">> ELSE <<"goto">>]
        s2 == [s1 EXCEPT !.emailFilled = TRUE, !.steps = Append(@, "fillEmail")]
        s3 == [s2 EXCEPT !.passwordFilled = TRUE, !.steps = Append(@, "fillPassword")]
        s4 == [s3 EXCEPT !.submitClicked = in.submit, !.enterPressed = ~in.submit,
                         !.steps = Append(@, IF in.submit THEN "clickSubmit"
                                             ELSE "pressEnter")]
        s5 == [s4 EXCEPT !.settled = TRUE, !.steps = Append(@, "settle")]
        isLoggedIn == UrlSignal(in.url) \/ in.indicator
    IN
    IF ~in.nav THEN [LoginStart EXCEPT !.message = "page.goto: Timeout 30000ms exceeded"]
    ELSE IF ~in.email THEN [s1 EXCEPT !.message = "Could not find email input field"]
    ELSE IF ~in.password THEN [s2 EXCEPT !.message = "Could not find password input field"]
    ELSE IF ~in.settle THEN [s4 EXCEPT !.message = "page.waitForLoadState: Timeout 30000ms exceeded"]
    ELSE IF ~isLoggedIn
    THEN [s5 EXCEPT !.message = "Login verification failed - still on login page or no account indicators found"]
    ELSE [s5 EXCEPT !.isLoggedIn = TRUE, !.returned = TRUE]

CaptureMessage == "page.screenshot: capture failed"

\* the catch block of login and of downloadCsv: the optional screenshot, then
\* `throw error`; a failing mkdir or screenshot throws its own error instead
CatchCapture(r, screenshotOnError, captureOk) ==
    IF r.returned \/ ~screenshotOnError
    THEN r
    ELSE IF captureOk
    THEN [r EXCEPT !.captureTried = TRUE, !.captured = TRUE]
    ELSE [r EXCEPT !.captureTried = TRUE, !.message = CaptureMessage]

\* login that returns true without the verification
LoginNoVerification(in, screenshotOnError) ==
    LET r == CatchCapture(LoginTry(in), screenshotOnError, in.capture) IN
    IF r.settled THEN [r EXCEPT !.returned = TRUE, !.message = ""] ELSE r

\* login(page)
Login(in, screenshotOnError) ==
    CatchCapture(LoginTry(in), screenshotOnError, in.capture)

----------------------------------------------------------------------------
(* downloadCsv, agent.js *)

Statuses == {200, 403, 500}

\* page.request.get rejects (network error, timeout)
NetworkError ==
    [kind |-> "neterr", status |-> 0, contentType |-> "", body |-> EmptyBody]

\* what the export endpoint is modelled to answer with
Responses ==
    {NetworkError} \cup
    [kind : {"response"}, status : Statuses, contentType : ContentTypes, body : Bodies]

HtmlMessage == "Received HTML instead of CSV - session may have expired"

DownloadStart ==
    [returned |-> FALSE, message |-> "", captured |-> FALSE,
     classified |-> FALSE, value |-> None, captureTried |-> FALSE]

\* the try block of downloadCsv without the status check
DownloadTryNoStatusCheck(resp, id) ==
    IF resp.kind = "neterr"
    THEN [DownloadStart EXCEPT !.message = "apiRequestContext.get: request failed"]
    ELSE IF ~ensureCsv(resp.body, resp.contentType)
    THEN [DownloadStart EXCEPT !.classified = TRUE, !.message = HtmlMessage]
    ELSE [DownloadStart EXCEPT
            !.classified = TRUE, !.returned = TRUE,
            !.value = [buffer |-> [id |-> id, body |-> resp.body],
                       contentType |-> resp.contentType,
                       bytes |-> resp.body.len]]

\* the try block of downloadCsv; id names the buffer of this response
DownloadTry(resp, id) ==
    IF resp.kind = "neterr"
    THEN [DownloadStart EXCEPT !.message = "apiRequestContext.get: request failed"]
    ELSE IF resp.status # OkStatus
    THEN [DownloadStart EXCEPT !.message = "HTTP status received"]
    ELSE IF ~ensureCsv(resp.body, resp.contentType)
    THEN [DownloadStart EXCEPT !.classified = TRUE, !.message = HtmlMessage]
    ELSE [DownloadStart EXCEPT
            !.classified = TRUE, !.returned = TRUE,
            !.value = [buffer |-> [id |-> id, body |-> resp.body],
                       contentType |-> resp.contentType,
                       bytes |-> resp.body.len]]

\* downloadCsv(page)
DownloadCsv(resp, id, screenshotOnError, captureOk) ==
    CatchCapture(DownloadTry(resp, id), screenshotOnError, captureOk)

\* downloadWithRelogin re-logging in after every failure of downloadCsv
SessionExpiredAnyError(e) == TRUE

\* error.message.includes('HTML instead of CSV') in downloadWithRelogin
SessionExpired(e) == e.msg = HtmlMessage

----------------------------------------------------------------------------
(* Log of the run *)

Event(e, x, y) == [e |-> e, x |-> x, y |-> y]

\* how the export endpoint answered, whatever downloadCsv made of it
ResponseClass(resp) ==
    IF resp.kind = "neterr" THEN "neterr"
    ELSE IF resp.status # 200 THEN "non200"
    ELSE IF ensureCsv(resp.body, resp.contentType) THEN "ok"
    ELSE "rejected"

SleepEvents(f, g) ==
    IF g.st = "sleeping" THEN <<Event("sleep", f.taskName, g.delay)>> ELSE <<>>

----------------------------------------------------------------------------
(* runAgent, agent.js *)

NoFrame ==
    [taskName |-> "", retries |-> 0, baseDelayMs |-> 0, maxDelayMs |-> 0,
     attempt |-> 0, lastError |-> None, value |-> None, delay |-> 0, st |-> "idle"]

Init ==
    /\ pc = "launch"
    /\ config \in [screenshotOnError : BOOLEAN]
    /\ browser = FALSE /\ context = FALSE /\ page = FALSE
    /\ rt = NoFrame /\ calls = 0 /\ sleeps = <<>>
    /\ opErr = None /\ outcome = None
    /\ trace = <<>> /\ okBuffers = {}
    /\ result = None /\ delivered = <<>> /\ files = <<>>
    /\ closed = <<>> /\ exitCode = -1
    /\ fn = NoCall
    /\ store = NoStore

flowVars == <<rt, calls, sleeps, opErr, outcome, trace, okBuffers>>

endVars == <<result, delivered, files, closed, exitCode>>

\* browser = await chromium.launch(...)
Launch ==
    /\ pc = "launch"
    /\ \E ok \in BOOLEAN :
          /\ browser' = ok
          /\ pc' = IF ok THEN "newContext" ELSE "catch"
    /\ UNCHANGED <<store, fn, config, context, page, flowVars, endVars>>

\* context = await browser.newContext(...)
NewContext ==
    /\ pc = "newContext"
    /\ \E ok \in BOOLEAN :
          /\ context' = ok
          /\ pc' = IF ok THEN "newPage" ELSE "catch"
    /\ UNCHANGED <<store, fn, config, browser, page, flowVars, endVars>>

\* page = await context.newPage(), then the call of withRetry for the login
NewPage ==
    /\ pc = "newPage"
    /\ \E ok \in BOOLEAN :
          /\ page' = ok
          /\ pc' = IF ok THEN "login" ELSE "catch"
          /\ rt' = IF ok
                   THEN WithRetryStart("Login", DefaultRetries, LoginBaseDelayMs,
                                       DefaultMaxDelayMs)
                   ELSE rt
    /\ UNCHANGED <<store, fn, config, browser, context, calls, sleeps, opErr, outcome,
                   trace, okBuffers, endVars>>

\* withRetry invokes `async () => await login(page)`
LoginAttempt ==
    /\ pc = "login" /\ rt.st = "calling"
    /\ \E in \in LoginInputs :
          LET r == Login(in, config.screenshotOnError)
              e == Err(r.message, Len(trace) + 2)
              g == IF r.returned THEN OnSuccess(rt, TRUE) ELSE OnFailure(rt, e)
          IN
          /\ rt' = g
          /\ sleeps' = SleepLog(rt, g)
          /\ trace' = trace \o <<Event("attempt", rt.taskName, rt.attempt),
                                 Event("login", IF r.returned THEN "ok" ELSE "fail",
                                       r.isLoggedIn)>>
                            \o SleepEvents(rt, g)
    /\ calls' = calls + 1
    /\ UNCHANGED <<store, fn, pc, config, browser, context, page, opErr, outcome, okBuffers, endVars>>

\* `await sleep(delay)` of withRetry resolves
RetrySleepDone ==
    /\ pc \in {"login", "download"} /\ rt.st = "sleeping"
    /\ rt' = AfterSleep(rt)
    /\ UNCHANGED <<store, fn, pc, config, browser, context, page, calls, sleeps, opErr,
                   outcome, trace, okBuffers, endVars>>

\* withRetry throws lastError: control reaches the catch block of runAgent
RetryThrown ==
    /\ pc \in {"login", "download"} /\ rt.st = "thrown"
    /\ pc' = "catch"
    /\ UNCHANGED <<store, fn, config, browser, context, page, flowVars, endVars>>

\* withRetry(login) returned: the call of withRetry(downloadWithRelogin)
LoginDone ==
    /\ pc = "login" /\ rt.st = "returned"
    /\ rt' = WithRetryStart("Download CSV", DefaultRetries, DownloadBaseDelayMs,
                            DefaultMaxDelayMs)
    /\ calls' = 0
    /\ pc' = "download"
    /\ UNCHANGED <<store, fn, config, browser, context, page, sleeps, opErr, outcome,
                   trace, okBuffers, endVars>>

\* withRetry invokes downloadWithRelogin: the first downloadCsv(page)
FirstFetch ==
    /\ pc = "download" /\ rt.st = "calling"
    /\ \E resp \in Responses, captureOk \in BOOLEAN :
          LET id == Len(trace) + 2
              r == DownloadCsv(resp, id, config.screenshotOnError, captureOk)
              e == Err(r.message, id)
              relogin == ~r.returned /\ SessionExpired(e)
              g == IF r.returned THEN OnSuccess(rt, r.value)
                   ELSE IF relogin THEN rt
                   ELSE OnFailure(rt, e)
          IN
          /\ rt' = g
          /\ pc' = IF relogin THEN "relogin" ELSE "download"
          /\ sleeps' = SleepLog(rt, g)
          /\ okBuffers' = IF ResponseClass(resp) = "ok"
                          THEN okBuffers \cup {id} ELSE okBuffers
          /\ trace' = trace \o <<Event("attempt", rt.taskName, rt.attempt),
                                 Event("fetch", ResponseClass(resp), r.classified)>>
                            \o SleepEvents(rt, g)
    /\ calls' = calls + 1
    /\ UNCHANGED <<store, fn, config, browser, context, page, opErr, outcome, endVars>>

\* the catch block of downloadWithRelogin fetching again whatever login did
AfterReloginAlwaysRefetch(returned) == "refetch"

\* `await login(page)` in the catch block of downloadWithRelogin: when it
\* resolves the next statement fetches again, when it rejects the rejection
\* leaves downloadWithRelogin
AfterRelogin(returned) == IF returned THEN "refetch" ELSE "download"

\* the catch block of downloadWithRelogin: `await login(page)`
Relogin ==
    /\ pc = "relogin"
    /\ \E in \in LoginInputs :
          LET r == Login(in, config.screenshotOnError)
              e == Err(r.message, Len(trace) + 1)
              g == IF r.returned THEN rt ELSE OnFailure(rt, e)
          IN
          /\ rt' = g
          /\ pc' = AfterRelogin(r.returned)
          /\ sleeps' = SleepLog(rt, g)
          /\ trace' = trace \o <<Event("login", IF r.returned THEN "ok" ELSE "fail",
                                       r.isLoggedIn)>>
                            \o SleepEvents(rt, g)
    /\ UNCHANGED <<store, fn, config, browser, context, page, calls, opErr, outcome, okBuffers, endVars>>

\* the second downloadCsv awaited without `return`: the catch block falls
\* through to `throw error`
RefetchOutcomeNoReturn(f, r, e) == OnFailure(f, e)

\* what `return await downloadCsv(page)` hands to withRetry: the value of the
\* second downloadCsv, or its error
RefetchOutcome(f, r, e) ==
    IF r.returned THEN OnSuccess(f, r.value) ELSE OnFailure(f, e)

\* the catch block of downloadWithRelogin: `return await downloadCsv(page)`
Refetch ==
    /\ pc = "refetch"
    /\ \E resp \in Responses, captureOk \in BOOLEAN :
          LET id == Len(trace) + 1
              r == DownloadCsv(resp, id, config.screenshotOnError, captureOk)
              e == Err(r.message, id)
              g == RefetchOutcome(rt, r, e)
          IN
          /\ rt' = g
          /\ sleeps' = SleepLog(rt, g)
          /\ okBuffers' = IF ResponseClass(resp) = "ok"
                          THEN okBuffers \cup {id} ELSE okBuffers
          /\ trace' = trace \o <<Event("fetch", ResponseClass(resp), r.classified)>>
                            \o SleepEvents(rt, g)
    /\ pc' = "download"
    /\ UNCHANGED <<store, fn, config, browser, context, page, calls, opErr, outcome, endVars>>

\* withRetry(downloadWithRelogin) returned: `const { buffer, bytes } = ...`
DownloadDone ==
    /\ pc = "download" /\ rt.st = "returned"
    /\ result' = rt.value
    /\ pc' = "deliver"
    /\ UNCHANGED <<store, fn, config, browser, context, page, flowVars,
                   delivered, files, closed, exitCode>>

\* deliver resolving although its history write failed
AfterDeliverCanonicalOnly(canonicalOk, historyOk) ==
    IF canonicalOk THEN "prune" ELSE "catch"

\* `await deliver(buffer, timestamp)` resolves when both writes succeeded and
\* rejects otherwise, which takes runAgent to its catch block
AfterDeliver(canonicalOk, historyOk) ==
    IF canonicalOk /\ historyOk THEN "prune" ELSE "catch"

\* timestamp = generateTimestamp(); await deliver(buffer, timestamp)
Deliver ==
    /\ pc = "deliver"
    /\ delivered' = Append(delivered, [buffer |-> result.buffer, timestamp |-> "timestamp"])
    /\ \E canonicalOk \in BOOLEAN, historyOk \in BOOLEAN :
          /\ files' = IF ~canonicalOk THEN <<>>
                      ELSE IF ~historyOk THEN <<"canonical">>
                      ELSE <<"canonical", "history">>
          /\ pc' = AfterDeliver(canonicalOk, historyOk)
    /\ UNCHANGED <<store, fn, config, browser, context, page, flowVars, result, closed, exitCode>>

\* await pruneHistory(config.target, config.keepHistory): nothing to prune
\* with the rotating backups
Prune ==
    /\ pc = "prune"
    /\ pc' = "closePage"
    /\ UNCHANGED <<store, fn, config, browser, context, page, flowVars, endVars>>

\* catch (error) { logger.error(...); process.exit(1) }: the process ends
\* inside the catch block
ProcessExit ==
    /\ pc = "catch"
    /\ exitCode' = 1
    /\ pc' = "exited"
    /\ UNCHANGED <<store, fn, config, browser, context, page, flowVars,
                   result, delivered, files, closed>>

\* close() awaited without `.catch(() => {})`: a rejection leaves the finally
\* block and fails the run
AfterCloseUncaught(ok, next) == IF ok THEN next ELSE "catch"

\* `.catch(() => {})` on the promise of close(): a rejection is swallowed and
\* the finally block goes on with its next statement
AfterClose(ok, next) == next

\* finally: if (page) await page.close().catch(() => {})
ClosePage ==
    /\ pc = "closePage"
    /\ \E ok \in BOOLEAN :
          /\ closed' = IF page THEN Append(closed, [res |-> "page", ok |-> ok]) ELSE closed
          /\ pc' = AfterClose(ok, "closeContext")
    /\ UNCHANGED <<store, fn, config, browser, context, page, flowVars,
                   result, delivered, files, exitCode>>

\* finally: if (context) await context.close().catch(() => {})
CloseContext ==
    /\ pc = "closeContext"
    /\ \E ok \in BOOLEAN :
          /\ closed' = IF context THEN Append(closed, [res |-> "context", ok |-> ok]) ELSE closed
          /\ pc' = AfterClose(ok, "closeBrowser")
    /\ UNCHANGED <<store, fn, config, browser, context, page, flowVars,
                   result, delivered, files, exitCode>>

\* finally: if (browser) await browser.close().catch(() => {}); runAgent
\* returns and the process ends with code 0
CloseBrowser ==
    /\ pc = "closeBrowser"
    /\ \E ok \in BOOLEAN :
          /\ closed' = IF browser THEN Append(closed, [res |-> "browser", ok |-> ok]) ELSE closed
          /\ pc' = AfterClose(ok, "done")
          /\ exitCode' = IF AfterClose(ok, "done") = "done" THEN 0 ELSE exitCode
    /\ UNCHANGED <<store, fn, config, browser, context, page, flowVars,
                   result, delivered, files>>

Next ==
    \/ Launch \/ NewContext \/ NewPage
    \/ LoginAttempt \/ RetrySleepDone \/ RetryThrown \/ LoginDone
    \/ FirstFetch \/ Relogin \/ Refetch \/ DownloadDone
    \/ Deliver \/ Prune \/ ProcessExit
    \/ ClosePage \/ CloseContext \/ CloseBrowser

Spec == Init /\ [][Next]_vars

\* the run when every awaited step returns or times out: no step is awaited
\* forever
SpecLive == Spec /\ WF_vars(Next)

----------------------------------------------------------------------------
(* Reading the log of the run *)

Logins == {i \in DOMAIN trace : trace[i].e = "login"}

Fetches == {i \in DOMAIN trace : trace[i].e = "fetch"}

DownloadSleeps == {i \in DOMAIN trace : trace[i].e = "sleep" /\ trace[i].x = "Download CSV"}

\* the invocations of downloadWithRelogin by withRetry
DownloadAttempts ==
    {i \in DOMAIN trace : trace[i].e = "attempt" /\ trace[i].x = "Download CSV"}

\* last log entry of the attempt that starts at i
AttemptEnd(i) ==
    LET later == {j \in DownloadAttempts : j > i} IN
    IF later = {} THEN Len(trace)
    ELSE (CHOOSE j \in later : \A k \in later : j <= k) - 1

LoginsIn(i) == {k \in Logins : i < k /\ k <= AttemptEnd(i)}

FetchesIn(i) == {k \in Fetches : i < k /\ k <= AttemptEnd(i)}

\* downloadWithRelogin has returned or thrown for the attempt that starts at i
AttemptOver(i) == AttemptEnd(i) < Len(trace) \/ pc \notin {"relogin", "refetch"}

\* a login(page) call returned true with the verification result true
VerifiedLogin(j) ==
    j \in Logins /\ trace[j].x = "ok" /\ trace[j].y = TRUE

----------------------------------------------------------------------------
(* Claims about runAgent, checked under Spec *)

\* C1: no export fetch is issued before some login(page) call has returned
\* with the login verification true; when withRetry(login) has used up its
\* attempts, no fetch has been issued and the run is on its way out.
C1_NoFetchBeforeVerifiedLogin ==
    /\ \A i \in Fetches : \E j \in 1..(i - 1) : VerifiedLogin(j)
    /\ (rt.taskName = "Login" => Fetches = {})
    /\ (rt.taskName = "Login" /\ rt.st = "thrown" => pc \in {"login", "catch", "exited"})

C1_Witness ==
    /\ Fetches # {}
    /\ \E j \in Logins : trace[j].x = "fail"

\* C2: every buffer handed to deliver came from an export response with status
\* 200 that ensureCsv accepted; no other buffer is ever delivered.
C2_OnlyAcceptedBuffersDelivered ==
    \A k \in 1..Len(delivered) :
        LET id == delivered[k].buffer.id IN
        /\ id \in okBuffers
        /\ id \in Fetches
        /\ trace[id].x = "ok"
        /\ trace[id].y = TRUE

C2_Witness ==
    /\ Len(delivered) = 1
    /\ \E i \in Fetches : trace[i].x # "ok"

\* C3 (as stated): within one call of downloadWithRelogin, whenever the first
\* fetch returns 200 and the classifier rejects the body, login is re-run
\* exactly once and then the fetch is issued exactly once more; every call
\* performs at most 2 fetches and at most 1 login.
C3_ReloginOnceThenRefetchOnce ==
    \A i \in DownloadAttempts :
        /\ Cardinality(FetchesIn(i)) <= 2
        /\ Cardinality(LoginsIn(i)) <= 1
        /\ (AttemptOver(i) /\ trace[i + 1].x = "rejected" =>
               /\ Cardinality(LoginsIn(i)) = 1
               /\ Cardinality(FetchesIn(i)) = 2
               /\ trace[i + 2].e = "login"
               /\ trace[i + 3].e = "fetch")

\* C4: when the initial login succeeds on its first attempt, the first export
\* fetch returns an HTML page with status 200, the re-login returns true and
\* the second fetch of the run, issued after it, returns a valid CSV, then
\* withRetry has returned the buffer of that second fetch, login was invoked
\* exactly twice in the run and withRetry(downloadWithRelogin) has not slept.
C4_ReloginEndToEnd ==
    \A f1, f2 \in Fetches :
        (/\ VerifiedLogin(2)
         /\ f1 < f2 /\ Fetches \cap 1..f2 = {f1, f2}
         /\ trace[f1].x = "rejected"
         /\ \E j \in (f1 + 1)..(f2 - 1) : VerifiedLogin(j)
         /\ trace[f2].x = "ok")
        =>
        (/\ rt.taskName = "Download CSV" /\ rt.st = "returned"
         /\ rt.value # None
         /\ rt.value.buffer.id = f2
         /\ rt.value.buffer.id \in okBuffers
         /\ (result # None => result = rt.value)
         /\ Cardinality(Logins) = 2
         /\ Cardinality(Fetches) = 2
         /\ DownloadSleeps = {})

C4_Witness ==
    /\ Len(trace) = 6
    /\ VerifiedLogin(2) /\ trace[4].e = "fetch" /\ trace[4].x = "rejected"
    /\ VerifiedLogin(5) /\ trace[6].e = "fetch" /\ trace[6].x = "ok"
    /\ Len(delivered) = 1 /\ delivered[1].buffer.id = 6

\* C5: an export fetch that fails with a network error or a non-200 status is
\* never passed to the classifier and is followed by no login: its failure
\* goes to withRetry, which sleeps or throws, and an attempt of
\* withRetry(downloadWithRelogin) always starts with a fetch.
C5_GenericFailureNoRelogin ==
    /\ \A k \in Fetches :
          trace[k].x \in {"neterr", "non200"} =>
              /\ trace[k].y = FALSE
              /\ rt.taskName = "Download CSV"
              /\ pc \notin {"relogin", "refetch"} \/ k < Len(trace)
              /\ (k < Len(trace) => trace[k + 1].e = "sleep")
              /\ (k = Len(trace) => rt.st = "thrown" /\ rt.lastError.id = k)
    /\ \A i \in DownloadAttempts : i < Len(trace) /\ trace[i + 1].e = "fetch"
    /\ \A j \in DownloadSleeps :
          IF j = Len(trace)
          THEN pc = "download" /\ rt.st \in {"sleeping", "calling"}
          ELSE trace[j + 1].e = "attempt"

C5_Witness ==
    \E k \in Fetches :
        /\ trace[k].x = "non200"
        /\ k + 3 <= Len(trace)
        /\ trace[k + 1].e = "sleep" /\ trace[k + 3].e = "fetch"

\* C10 (as stated): on every exit path of runAgent after the page was opened,
\* close was invoked on the page, the context and the browser before the
\* process ended.
C10_ClosedOnEveryExit ==
    exitCode # -1 /\ page =>
        /\ Len(closed) = 3
        /\ closed[1].res = "page"
        /\ closed[2].res = "context"
        /\ closed[3].res = "browser"

\* C11: a close() that fails never changes the outcome of the run: it happens
\* only in a run that delivered, the run still ends with exit code 0 and never
\* with the failure outcome, and the closes after it are still invoked, in
\* order, on the context and the browser.
C11_CloseFailureSwallowed ==
    (\E k \in 1..Len(closed) : ~closed[k].ok) =>
        /\ exitCode \in {-1, 0}
        /\ pc \in {"closeContext", "closeBrowser", "done"}
        /\ files = <<"canonical", "history">>
        /\ (pc = "closeContext" => Len(closed) = 1)
        /\ (pc = "closeBrowser" => Len(closed) = 2)
        /\ (pc = "done" =>
               /\ exitCode = 0
               /\ Len(closed) = 3
               /\ closed[1].res = "page"
               /\ closed[2].res = "context"
               /\ closed[3].res = "browser")

C11_Witness ==
    /\ pc = "done" /\ exitCode = 0 /\ Len(closed) = 3
    /\ ~closed[1].ok /\ ~closed[2].ok /\ ~closed[3].ok

----------------------------------------------------------------------------
(* SpecCalls: the functions of agent.js and utils.js called on their own, on *)
(* every input of their bounded domains                                      *)

callVars == <<pc, config, browser, context, page, rt, calls, sleeps, opErr,
              outcome, trace, okBuffers, result, delivered, files, closed, exitCode,
              store>>

CallsInit ==
    /\ pc = "calls"
    /\ store = NoStore
    /\ rt = NoFrame /\ calls = 0 /\ sleeps = <<>>
    /\ opErr = None /\ outcome = None
    /\ IdleRun

\* login(page) with config.screenshotOnError set either way; `tried` is what
\* the try block did before the catch block ran
CallLogin ==
    /\ pc = "calls" /\ fn = NoCall
    /\ \E in \in AllLoginInputs, screenshotOnError \in BOOLEAN :
          fn' = [op |-> "login", in |-> in, screenshotOnError |-> screenshotOnError,
                 tried |-> LoginTry(in), out |-> Login(in, screenshotOnError)]
    /\ UNCHANGED callVars

\* downloadCsv(page) with config.screenshotOnError set either way
CallDownloadCsv ==
    /\ pc = "calls" /\ fn = NoCall
    /\ \E resp \in Responses, captureOk \in BOOLEAN, screenshotOnError \in BOOLEAN :
          fn' = [op |-> "downloadCsv", in |-> resp,
                 screenshotOnError |-> screenshotOnError,
                 tried |-> DownloadTry(resp, 1),
                 out |-> DownloadCsv(resp, 1, screenshotOnError, captureOk)]
    /\ UNCHANGED callVars

\* clickFirst(page, selectorList)
CallClickFirst ==
    /\ pc = "calls" /\ fn = NoCall
    /\ \E list \in SelectorLists :
          fn' = [op |-> "clickFirst", in |-> list, out |-> ClickFirst(list)]
    /\ UNCHANGED callVars

\* fillFirst(page, selectorList, value)
CallFillFirst ==
    /\ pc = "calls" /\ fn = NoCall
    /\ \E list \in SelectorLists :
          fn' = [op |-> "fillFirst", in |-> list, out |-> FillFirst(list)]
    /\ UNCHANGED callVars

\* ensureCsv(buffer, contentType)
CallEnsureCsv ==
    /\ pc = "calls" /\ fn = NoCall
    /\ \E buffer \in AllBodies, contentType \in AllContentTypes :
          fn' = [op |-> "ensureCsv",
                 in |-> [buffer |-> buffer, contentType |-> contentType],
                 out |-> ensureCsv(buffer, contentType)]
    /\ UNCHANGED callVars

\* ensureCsv(buffer, contentType) on two buffers of the same length, given as
\* bytes, with the same content type
CallEnsureCsvTwice ==
    /\ pc = "calls" /\ fn = NoCall
    /\ \E first \in RawBuffers, second \in RawBuffers,
          contentType \in {"", "text/csv", "text/plain"} :
          /\ first.len = second.len
          /\ fn' = [op |-> "ensureCsvTwice",
                    in |-> [first |-> first, second |-> second,
                            contentType |-> contentType],
                    out |-> <<ensureCsv(Sample(first), contentType),
                              ensureCsv(Sample(second), contentType)>>]
    /\ UNCHANGED callVars

CallsNext ==
    \/ CallLogin \/ CallDownloadCsv
    \/ CallClickFirst \/ CallFillFirst
    \/ CallEnsureCsv \/ CallEnsureCsvTwice

SpecCalls == CallsInit /\ [][CallsNext]_vars

\* C12 (as stated): the diagnostic snapshot of login and downloadCsv is
\* attempted only when screenshotOnError is set, and when it fails the error
\* login/downloadCsv throws is still the error of the try block.
C12_CaptureNeverMasks ==
    fn.op \in {"login", "downloadCsv"} =>
        /\ (fn.out.captureTried => fn.screenshotOnError /\ ~fn.tried.returned)
        /\ fn.out.returned = fn.tried.returned
        /\ (~fn.out.returned => fn.out.message = fn.tried.message)

\* selectors of the list that are found visible
VisibleIn(list) == {i \in DOMAIN list : list[i] \in {"visible", "actionThrows"}}

\* selectors of the list that are found visible and whose click/fill resolves
ActableIn(list) == {i \in DOMAIN list : list[i] = "visible"}

Lowest(S) == CHOOSE i \in S : \A j \in S : i <= j

\* the indices of S in increasing order
RECURSIVE Ascending(_)
Ascending(S) == IF S = {} THEN <<>> ELSE <<Lowest(S)>> \o Ascending(S \ {Lowest(S)})

\* C13 (as stated): clickFirst/fillFirst probes selectors in list order, acts
\* on the lowest-index visible selector only, performs exactly one action,
\* probes no selector after it and returns true; when no selector is visible
\* it performs no action and returns false.
C13_ActsOnFirstVisibleOnly ==
    fn.op \in {"clickFirst", "fillFirst"} =>
        IF VisibleIn(fn.in) = {}
        THEN /\ fn.out.result = FALSE
             /\ fn.out.acted = <<>>
        ELSE /\ fn.out.result = TRUE
             /\ fn.out.acted = <<Lowest(VisibleIn(fn.in))>>
             /\ fn.out.probed = Ascending(1..Lowest(VisibleIn(fn.in)))

\* C13 (amended): clickFirst/fillFirst probes selectors in list order and
\* performs its action on the visible selectors in that order until one action
\* completes; it then returns true and probes no selector after it. When the
\* action on the lowest-index visible selector completes, that is the only
\* action. When no selector is visible it performs no action and returns
\* false; it also returns false when every attempted action throws.
C13_ActsUntilAnActionCompletes ==
    fn.op \in {"clickFirst", "fillFirst"} =>
        LET list == fn.in
            last == IF ActableIn(list) = {} THEN Len(list)
                    ELSE Lowest(ActableIn(list))
        IN
        /\ fn.out.probed = Ascending(1..last)
        /\ fn.out.acted = Ascending(VisibleIn(list) \cap 1..last)
        /\ fn.out.result = (ActableIn(list) # {})
        /\ (VisibleIn(list) = {} => fn.out.acted = <<>> /\ ~fn.out.result)
        /\ (VisibleIn(list) # {} /\ Lowest(VisibleIn(list)) \in ActableIn(list) =>
               /\ fn.out.result
               /\ fn.out.acted = <<Lowest(VisibleIn(list))>>
               /\ fn.out.probed = Ascending(1..Lowest(VisibleIn(list))))

C13_Witness ==
    /\ fn.op = "clickFirst"
    /\ fn.in = <<"hidden", "hidden", "visible">>
    /\ fn.out.result /\ fn.out.acted = <<3>> /\ fn.out.probed = <<1, 2, 3>>

\* C14: clickFirst and fillFirst never throw: a selector whose locate or
\* visibility check raises is skipped and the next selector is still probed,
\* and when no selector is visible the call returns false.
C14_PrimitivesNeverThrow ==
    fn.op \in {"clickFirst", "fillFirst"} =>
        /\ ~fn.out.threw
        /\ \A i \in DOMAIN fn.in :
              /\ fn.in[i] \in {"locateThrows", "checkThrows"}
              /\ i < Len(fn.in)
              /\ \E k \in DOMAIN fn.out.probed : fn.out.probed[k] = i
              => \E k \in DOMAIN fn.out.probed : fn.out.probed[k] = i + 1
        /\ (VisibleIn(fn.in) = {} =>
               /\ fn.out.result = FALSE
               /\ Len(fn.out.probed) = Len(fn.in))

C14_Witness ==
    /\ fn.op = "fillFirst"
    /\ fn.in = <<"locateThrows", "checkThrows", "visible">>
    /\ fn.out.result /\ ~fn.out.threw /\ fn.out.acted = <<3>>

\* position of a step in the steps of a login call, 0 when it did not happen
StepAt(steps, name) ==
    IF \E k \in DOMAIN steps : steps[k] = name
    THEN CHOOSE k \in DOMAIN steps : steps[k] = name
    ELSE 0

\* C15: login fills the email field before the password field; when the email
\* field is not found it throws without filling the password or submitting,
\* when the password field is not found it throws without submitting; no
\* submit click or Enter press happens in a call in which a field was not
\* filled.
C15_MissingFieldIsFatal ==
    fn.op = "login" =>
        LET st == fn.out.steps
            submitted == StepAt(st, "clickSubmit") > 0 \/ StepAt(st, "pressEnter") > 0
        IN
        /\ (StepAt(st, "fillPassword") > 0 =>
               /\ StepAt(st, "fillEmail") > 0
               /\ StepAt(st, "fillEmail") < StepAt(st, "fillPassword"))
        /\ (fn.in.nav /\ ~fn.in.email =>
               /\ ~fn.out.returned
               /\ StepAt(st, "fillPassword") = 0 /\ ~fn.out.passwordFilled
               /\ ~submitted)
        /\ (fn.in.nav /\ fn.in.email /\ ~fn.in.password =>
               /\ ~fn.out.returned
               /\ ~submitted)
        /\ (submitted =>
               /\ fn.out.emailFilled /\ fn.out.passwordFilled
               /\ fn.in.email /\ fn.in.password
               /\ 0 < StepAt(st, "fillPassword")
               /\ StepAt(st, "fillPassword") < Len(st))
        /\ (fn.out.submitClicked \/ fn.out.enterPressed => submitted)

C15_Witness ==
    /\ fn.op = "login"
    /\ fn.in.nav /\ fn.in.email /\ ~fn.in.password /\ fn.in.submit
    /\ fn.out.steps = <<"goto", "fillEmail">>
    /\ ~fn.out.returned

C17_VerificationIsOrOfSignals ==
    fn.op = "login" /\ fn.in.nav /\ fn.in.email /\ fn.in.password /\ fn.in.settle =>
        LET signal1 == /\ ~UrlIncludes(fn.in.url, "/login")
                       /\ \/ UrlIncludes(fn.in.url, "/account")
                          \/ UrlIncludes(fn.in.url, "/dashboard")
                          \/ fn.in.url = baseUrl
            signal2 == fn.in.indicator
        IN
        /\ fn.out.isLoggedIn = (signal1 \/ signal2)
        /\ fn.tried.returned = (signal1 \/ signal2)

\* C18 (as stated): with the post-submit URL equal to config.baseUrl and no
\* account indicator visible, the verification accepts.
C18_BaseUrlAloneSuffices ==
    /\ fn.op = "login"
    /\ fn.in.nav /\ fn.in.email /\ fn.in.password /\ fn.in.settle
    /\ fn.in.url = baseUrl /\ ~fn.in.indicator
    => fn.out.isLoggedIn /\ fn.tried.returned

\* content types that contain 'text/html' or 'application/xhtml' once lower-cased
HtmlIshTypes ==
    {"TEXT/HTML; charset=UTF-8", "application/xhtml+xml", "text/html, text/csv"}

\* content types that contain a known-good CSV type once lower-cased
KnownGoodTypes ==
    {"text/csv", "Text/CSV", "application/csv", "application/octet-stream",
     "application/x-csv", "text/html, text/csv"}

\* C19: for every combination of content type (HTML-ish or not, known-good or
\* not), sample (HTML marker, delimiter, newline) and buffer length (below,
\* equal to, above 100), ensureCsv returns what the decision procedure gives
\* in its order: HTML content type, HTML marker, no delimiter and longer than
\* 100, known-good type, then delimiter or newline or shorter than 100.
C19_SevenStepProcedure ==
    fn.op = "ensureCsv" =>
        LET b == fn.in.buffer
            html == fn.in.contentType \in HtmlIshTypes
            good == fn.in.contentType \in KnownGoodTypes
        IN
        fn.out = (IF html THEN FALSE
                  ELSE IF b.marker THEN FALSE
                  ELSE IF ~b.delim /\ b.len > 100 THEN FALSE
                  ELSE IF good THEN TRUE
                  ELSE b.delim \/ b.newline \/ b.len < 100)

C19_Witness ==
    /\ fn.op = "ensureCsv"
    /\ fn.in.buffer = Body(100, FALSE, FALSE, FALSE)
    /\ fn.in.contentType = "application/octet-stream"
    /\ fn.out = TRUE

\* C20: HTML evidence dominates: a content type that contains 'text/html' or
\* 'application/xhtml' in any letter case gives false even for a CSV body, and
\* an HTML marker in the sample gives false even for a known-good content type.
C20_HtmlEvidenceDominates ==
    fn.op = "ensureCsv" =>
        /\ (fn.in.contentType \in HtmlIshTypes => fn.out = FALSE)
        /\ (fn.in.buffer.marker => fn.out = FALSE)

C20_Witness ==
    /\ fn.op = "ensureCsv"
    /\ fn.in.buffer = Body(50, FALSE, TRUE, TRUE)
    /\ fn.in.contentType = "TEXT/HTML; charset=UTF-8"
    /\ fn.out = FALSE

\* C21: for a body whose sample has no HTML marker, no delimiter and no
\* newline, with the content type absent, ensureCsv returns true exactly when
\* the buffer is shorter than 100 bytes (50 bytes: true, 5000 bytes: false);
\* such a body longer than 100 bytes is rejected even under a known-good
\* content type.
C21_ShortBodyLeniency ==
    /\ fn.op = "ensureCsv"
    /\ ~fn.in.buffer.marker /\ ~fn.in.buffer.delim /\ ~fn.in.buffer.newline
    =>
    /\ (fn.in.contentType = "" => fn.out = (fn.in.buffer.len < 100))
    /\ (fn.in.contentType = "" /\ fn.in.buffer.len = 50 => fn.out = TRUE)
    /\ (fn.in.contentType = "" /\ fn.in.buffer.len = 5000 => fn.out = FALSE)
    /\ (fn.in.buffer.len > 100 /\ fn.in.contentType \in KnownGoodTypes =>
           fn.out = FALSE)

C21_Witness ==
    /\ fn.op = "ensureCsv"
    /\ fn.in.buffer = Body(5000, FALSE, FALSE, FALSE)
    /\ fn.in.contentType = "text/csv"
    /\ fn.out = FALSE

\* the two buffers hold the same bytes at every offset below 2048
SamePrefix(a, b) ==
    /\ {p \in a.markerAt : p < SampleLimit} = {p \in b.markerAt : p < SampleLimit}
    /\ {p \in a.delimAt : p < SampleLimit} = {p \in b.delimAt : p < SampleLimit}
    /\ {p \in a.newlineAt : p < SampleLimit} = {p \in b.newlineAt : p < SampleLimit}

\* C22: two calls of ensureCsv whose buffers have the same length and the same
\* first 2048 bytes, with the same content type, return the same result,
\* whatever the bytes from offset 2048 on are.
C22_OnlyPrefixLengthAndType ==
    /\ fn.op = "ensureCsvTwice"
    /\ fn.in.first.len = fn.in.second.len
    /\ SamePrefix(fn.in.first, fn.in.second)
    => fn.out[1] = fn.out[2]

C22_Witness ==
    /\ fn.op = "ensureCsvTwice"
    /\ fn.in.contentType = ""
    /\ fn.in.first = [len |-> 3000, markerAt |-> {}, delimAt |-> {10}, newlineAt |-> {}]
    /\ fn.in.second = [len |-> 3000, markerAt |-> {2048}, delimAt |-> {10}, newlineAt |-> {}]
    /\ fn.out = <<TRUE, TRUE>>

----------------------------------------------------------------------------
(* storage.js: deliver and pruneHistory, in its two revisions *)

\* "rotating": two alternating backups; "keepN": one history file per run,
\* pruned to the last N
Revisions == {"rotating", "keepN"}

\* process.env.TARGET; anything but 'wp' and 's3' is handled as 'fs' by deliver
Targets == {"wp", "s3", "fs", "ftp"}

MaxRuns == 3

\* minute of the hour in which deliver runs
Minutes == {0, 29, 30}

HalfHour == 30

\* timestamps of generateTimestamp, as strings of digits of one fixed width
Stamps == {<<0, 1>>, <<0, 2>>, <<1, 0>>}

\* a file name: prefix, then a string of digits, then the extension
FileName(prefix, stamp, ext) == [prefix |-> prefix, stamp |-> stamp, ext |-> ext]

\* process.env.WP_DEST_FILE || 'ingrosmart_catalog.csv'
CatalogFilename == FileName("ingrosmart_catalog", <<>>, ".csv")

\* currentMinute < 30 ? '1' : '2'
BackupSlot(minute) == IF minute < HalfHour THEN 1 ELSE 2

\* the rotating revision naming its history file after the timestamp
HistoryFilenameByTimestamp(revision, minute, timestamp) ==
    FileName("ingrosmart-", timestamp, ".csv")

\* `ingrosmart_backup_${backupSlot}.csv` in the rotating revision,
\* `ingrosmart-${timestamp}.csv` in the keep-N revision
HistoryFilename(revision, minute, timestamp) ==
    IF revision = "rotating"
    THEN FileName("ingrosmart_backup_", <<BackupSlot(minute)>>, ".csv")
    ELSE FileName("ingrosmart-", timestamp, ".csv")

\* where uploadToWordPress, uploadToS3 and saveToFileSystem put a file:
\* WordPress takes the file name as given, S3 and the file system write the
\* canonical file to a fixed place and the history file to the history place
WritePath(target, filename, isHistory) ==
    IF target = "wp" THEN [dir |-> "uploads", name |-> filename]
    ELSE IF isHistory THEN [dir |-> "history", name |-> filename]
    ELSE [dir |-> "main", name |-> CatalogFilename]

\* the files of a target with one of them written or overwritten; a file is
\* the buffer it holds and the time of its last write
Put(stored, path, buffer, now) ==
    [q \in DOMAIN stored \cup {path} |->
        IF q = path THEN [buffer |-> buffer, mtime |-> now] ELSE stored[q]]

\* deliver writing the history copy before the canonical file
deliverHistoryFirst(revision, target, in, now, stored) ==
    LET buffer == in.buffer
        canonicalOk == in.canonicalOk
        historyOk == in.historyOk
        canonical == WritePath(target, CatalogFilename, FALSE)
        history == WritePath(target,
                             HistoryFilename(revision, in.minute, in.timestamp),
                             TRUE)
    IN
    IF ~historyOk
    THEN [attempts |-> <<history>>, files |-> stored, threw |-> TRUE]
    ELSE IF ~canonicalOk
    THEN [attempts |-> <<history, canonical>>,
          files |-> Put(stored, history, buffer, now), threw |-> TRUE]
    ELSE [attempts |-> <<history, canonical>>,
          files |-> Put(Put(stored, history, buffer, now), canonical, buffer, now),
          threw |-> FALSE]

\* deliver(buffer, timestamp), with what the call meets in the record `in`
\* (the minute of the hour, whether each write succeeds): the two awaited
\* writes of the target's case, and `throw error` from the catch block when
\* one of them rejects
deliver(revision, target, in, now, stored) ==
    LET buffer == in.buffer
        canonicalOk == in.canonicalOk
        historyOk == in.historyOk
        canonical == WritePath(target, CatalogFilename, FALSE)
        history == WritePath(target,
                             HistoryFilename(revision, in.minute, in.timestamp),
                             TRUE)
    IN
    IF ~canonicalOk
    THEN [attempts |-> <<canonical>>, files |-> stored, threw |-> TRUE]
    ELSE IF ~historyOk
    THEN [attempts |-> <<canonical, history>>,
          files |-> Put(stored, canonical, buffer, now), threw |-> TRUE]
    ELSE [attempts |-> <<canonical, history>>,
          files |-> Put(Put(stored, canonical, buffer, now), history, buffer, now),
          threw |-> FALSE]

\* KEEP_HISTORY values pruneHistory is called with
KeepCounts == {-1, 0, 1, 2}

\* what fs.readdir / the S3 listing answers
Listings == {"ok", "ENOENT", "EACCES"}

\* f.startsWith('ingrosmart-') && f.endsWith('.csv'); for an S3 key,
\* Key.includes('ingrosmart-') && Key.endsWith('.csv') under the history prefix
MatchesHistoryPattern(name) == name.prefix = "ingrosmart-" /\ name.ext = ".csv"

\* the characters by which two names that match the pattern differ: the digits
\* of the stamp, then the '.' of the extension, which sorts below every digit
NameKey(name) ==
    [i \in 1..(Len(name.stamp) + 1) |->
        IF i <= Len(name.stamp) THEN name.stamp[i] + 1 ELSE 0]

\* string comparison a < b, character by character
RECURSIVE LexLess(_, _)
LexLess(a, b) ==
    IF a = <<>> THEN b # <<>>
    ELSE IF b = <<>> THEN FALSE
    ELSE IF Head(a) # Head(b) THEN Head(a) < Head(b)
    ELSE LexLess(Tail(a), Tail(b))

\* csvFiles.sort().reverse()
RECURSIVE NamesDescending(_)
NamesDescending(S) ==
    IF S = {} THEN <<>>
    ELSE LET top == CHOOSE n \in S :
                        \A m \in S \ {n} : LexLess(NameKey(m), NameKey(n))
         IN <<top>> \o NamesDescending(S \ {top})

\* .sort((a, b) => b.LastModified - a.LastModified)
RECURSIVE NewestFirst(_, _)
NewestFirst(S, stored) ==
    IF S = {} THEN <<>>
    ELSE LET top == CHOOSE n \in S :
                        \A m \in S \ {n} :
                            stored[[dir |-> "history", name |-> m]].mtime
                              <= stored[[dir |-> "history", name |-> n]].mtime
         IN <<top>> \o NewestFirst(S \ {top}, stored)

\* the file names found in the history directory / under the history prefix
HistoryNames(stored) == {q.name : q \in {r \in DOMAIN stored : r.dir = "history"}}

\* the slice of a list sorted oldest first that drops its last keepCount names
ToDeleteKeepOldest(sorted, keepCount) ==
    IF Len(sorted) > keepCount THEN SubSeq(sorted, 1, Len(sorted) - keepCount) ELSE <<>>

\* csvFiles.slice(keepCount) when csvFiles.length > keepCount
ToDelete(sorted, keepCount) ==
    IF Len(sorted) > keepCount THEN SubSeq(sorted, keepCount + 1, Len(sorted)) ELSE <<>>

\* the files of a target without the history files of the given names
Unlinked(stored, names) ==
    [q \in {r \in DOMAIN stored : ~(r.dir = "history" /\ r.name \in names)} |-> stored[q]]

\* the for loop over toDelete: one unlink / DeleteObject after the other, the
\* failAt-th of them rejecting (none when failAt is 0 or beyond the list)
DeleteLoop(stored, toDelete, failAt) ==
    LET done == IF failAt \in 1..Len(toDelete) THEN failAt - 1 ELSE Len(toDelete)
        deleted == SubSeq(toDelete, 1, done)
    IN [files |-> Unlinked(stored, {deleted[i] : i \in 1..done}),
        deleted |-> deleted,
        failed |-> failAt \in 1..Len(toDelete)]

\* pruneLocalHistory(keepCount); `code` is the code of the error of readdir
\* or unlink when one of them rejects: ENOENT is swallowed here, any other
\* error is thrown to pruneHistory
pruneLocalHistory(keepCount, stored, listing, failAt, code) ==
    IF listing # "ok"
    THEN [files |-> stored, deleted |-> <<>>, threw |-> listing # "ENOENT"]
    ELSE LET csvFiles == NamesDescending({n \in HistoryNames(stored) :
                                             MatchesHistoryPattern(n)})
             loop == DeleteLoop(stored, ToDelete(csvFiles, keepCount), failAt)
         IN [files |-> loop.files, deleted |-> loop.deleted,
             threw |-> loop.failed /\ code # "ENOENT"]

\* pruneS3History(keepCount); `configured` is S3_ENDPOINT and S3_BUCKET set
pruneS3History(keepCount, stored, configured, listing, failAt) ==
    IF ~configured
    THEN [files |-> stored, deleted |-> <<>>, threw |-> FALSE]
    ELSE IF listing # "ok"
    THEN [files |-> stored, deleted |-> <<>>, threw |-> TRUE]
    ELSE IF Cardinality(HistoryNames(stored)) <= keepCount
    THEN [files |-> stored, deleted |-> <<>>, threw |-> FALSE]
    ELSE LET sorted == NewestFirst({n \in HistoryNames(stored) :
                                       MatchesHistoryPattern(n)}, stored)
             loop == DeleteLoop(stored, ToDelete(sorted, keepCount), failAt)
         IN [files |-> loop.files, deleted |-> loop.deleted, threw |-> loop.failed]

\* pruneHistory(target, keepCount): a no-op in the rotating revision; in the
\* keep-N revision the switch on the target inside try/catch, whose catch
\* block logs and swallows
pruneHistory(revision, target, keepCount, stored, configured, listing, failAt, code) ==
    LET untouched == [files |-> stored, deleted |-> <<>>, threw |-> FALSE,
                      swallowed |-> FALSE]
        caught(r) == [files |-> r.files, deleted |-> r.deleted, threw |-> FALSE,
                      swallowed |-> r.threw]
    IN
    IF revision = "rotating" THEN untouched
    ELSE IF keepCount <= 0 THEN untouched
    ELSE IF target = "s3"
    THEN caught(pruneS3History(keepCount, stored, configured, listing, failAt))
    ELSE IF target = "fs"
    THEN caught(pruneLocalHistory(keepCount, stored, listing, failAt, code))
    ELSE untouched

----------------------------------------------------------------------------
(* deliver and pruneHistory called repeatedly on one delivery target *)

\* files found in the history place before the first run: a note, a history
\* file with a hand-made name, a text file named like a history file
ForeignNames ==
    {FileName("notes", <<>>, ".txt"),
     FileName("ingrosmart-", <<2>>, ".csv"),
     FileName("ingrosmart-", <<0, 1>>, ".txt")}

\* the history place is empty before the first run, or holds all of them
InitialFiles ==
    {[q \in {[dir |-> "history", name |-> n] : n \in S} |-> [buffer |-> 0, mtime |-> 0]] :
        S \in {{}, ForeignNames}}

\* what a call of pruneHistory meets: the S3 settings are read by the S3
\* target only; the listing fails or else the failAt-th deletion fails (none
\* when failAt is 0); readdir answers ENOENT only when the history directory
\* is missing, so holds no file; a deletion of a listed file fails with EACCES
PruneInputs(target, stored) ==
    {in \in [keepCount : KeepCounts, configured : BOOLEAN, listing : Listings,
             failAt : 0..2, code : {"ENOENT", "EACCES"}] :
        /\ target # "s3" => in.configured
        /\ in.listing # "ok" => in.failAt = 0
        /\ in.code = (IF in.listing = "ENOENT" THEN "ENOENT" ELSE "EACCES")
        /\ in.listing = "ENOENT" => target = "fs" /\ HistoryNames(stored) = {}}

storeVars == <<pc, config, browser, context, page, rt, calls, sleeps, opErr,
               outcome, trace, okBuffers, result, delivered, files, closed, exitCode>>

StoreInit ==
    /\ pc = "store"
    /\ rt = NoFrame /\ calls = 0 /\ sleeps = <<>>
    /\ opErr = None /\ outcome = None
    /\ IdleRun
    /\ \E revision \in Revisions, target \in Targets, stored \in InitialFiles :
          store = [revision |-> revision, target |-> target, files |-> stored,
                   runs |-> 0]

\* one run's deliver(buffer, timestamp); the buffer of the n-th run is n, and
\* so is the time of its writes
CallDeliver ==
    /\ pc = "store" /\ store.runs < MaxRuns
    /\ \E minute \in Minutes, timestamp \in Stamps,
          canonicalOk \in BOOLEAN, historyOk \in BOOLEAN :
          LET now == store.runs + 1
              in == [minute |-> minute, timestamp |-> timestamp,
                     buffer |-> now, canonicalOk |-> canonicalOk,
                     historyOk |-> historyOk]
              out == deliver(store.revision, store.target, in, now, store.files)
          IN
          /\ fn' = [op |-> "deliver",
                    in |-> in,
                    before |-> store.files,
                    out |-> out]
          /\ store' = [store EXCEPT !.files = out.files, !.runs = now]
    /\ UNCHANGED storeVars

\* pruneHistory(config.target, config.keepHistory)
CallPruneHistory ==
    /\ pc = "store"
    /\ \E in \in PruneInputs(store.target, store.files) :
          LET out == pruneHistory(store.revision, store.target, in.keepCount,
                                  store.files, in.configured, in.listing,
                                  in.failAt, in.code)
          IN
          /\ fn' = [op |-> "pruneHistory",
                    in |-> in,
                    before |-> store.files,
                    out |-> out]
          /\ store' = [store EXCEPT !.files = out.files]
    /\ UNCHANGED storeVars

StoreNext == CallDeliver \/ CallPruneHistory

SpecStore == StoreInit /\ [][StoreNext]_vars

\* C23: for every target, deliver writes the canonical file first and the
\* history copy second, one after the other; when the canonical write fails
\* the history write is not attempted; when the history write fails the
\* canonical file just written stays in place and deliver throws.
C23_CanonicalThenHistory ==
    fn.op = "deliver" =>
        LET a == fn.out.attempts
            after == fn.out.files
        IN
        /\ store.files = after
        /\ Len(a) \in 1..2
        /\ a[1].name = CatalogFilename /\ a[1].dir # "history"
        /\ (Len(a) = 2 =>
               /\ a[2] # a[1]
               /\ a[2].name.prefix \in {"ingrosmart_backup_", "ingrosmart-"})
        /\ (~fn.in.canonicalOk =>
               /\ Len(a) = 1
               /\ after = fn.before
               /\ fn.out.threw)
        /\ (fn.in.canonicalOk /\ ~fn.in.historyOk =>
               /\ Len(a) = 2
               /\ fn.out.threw
               /\ a[1] \in DOMAIN after /\ after[a[1]].buffer = fn.in.buffer
               /\ (a[2] \in DOMAIN after) = (a[2] \in DOMAIN fn.before)
               /\ (a[2] \in DOMAIN after => after[a[2]] = fn.before[a[2]]))
        /\ (fn.in.canonicalOk /\ fn.in.historyOk =>
               /\ Len(a) = 2
               /\ ~fn.out.threw
               /\ a[1] \in DOMAIN after /\ after[a[1]].buffer = fn.in.buffer
               /\ a[2] \in DOMAIN after /\ after[a[2]].buffer = fn.in.buffer)

C23_Witness ==
    /\ fn.op = "deliver" /\ store.target = "s3" /\ store.runs = 2
    /\ fn.in.canonicalOk /\ ~fn.in.historyOk
    /\ fn.out.threw
    /\ Len(fn.out.attempts) = 2
    /\ fn.out.attempts[1] \in DOMAIN fn.before
    /\ fn.before[fn.out.attempts[1]].buffer = 1
    /\ store.files[fn.out.attempts[1]].buffer = 2

\* the history files the runs wrote: the files of the target that are not
\* the canonical file and were not there before the first run
RunHistoryFiles(stored) ==
    {q \in DOMAIN stored : stored[q].buffer # 0 /\ q.name # CatalogFilename}

\* C26: in the rotating revision the history file name depends only on the
\* minute of the hour (slot 1 below 30, slot 2 from 30 on), not on the
\* timestamp; after any sequence of runs the runs have left at most 2 history
\* files beside the canonical file, a run overwrites the slot an earlier run
\* of the same half-hour wrote, and pruneHistory removes nothing.
C26_TwoRotatingSlots ==
    store.revision = "rotating" =>
        /\ Cardinality(RunHistoryFiles(store.files)) <= 2
        /\ (fn.op = "deliver" /\ Len(fn.out.attempts) = 2 =>
               fn.out.attempts[2].name =
                   FileName("ingrosmart_backup_",
                            <<IF fn.in.minute < 30 THEN 1 ELSE 2>>, ".csv"))
        /\ (fn.op = "deliver" /\ ~fn.out.threw =>
               LET slot == fn.out.attempts[2] IN
               /\ store.files[slot].buffer = fn.in.buffer
               /\ (slot \in DOMAIN fn.before =>
                      RunHistoryFiles(store.files) = RunHistoryFiles(fn.before)))
        /\ (fn.op = "pruneHistory" => store.files = fn.before /\ ~fn.out.threw)

C26_Witness ==
    /\ store.revision = "rotating" /\ store.runs = 3
    /\ fn.op = "deliver" /\ ~fn.out.threw
    /\ fn.in.minute = 29 /\ fn.in.timestamp = <<1, 0>>
    /\ fn.out.attempts[2] \in DOMAIN fn.before
    /\ fn.before[fn.out.attempts[2]].buffer = 1
    /\ store.files[fn.out.attempts[2]].buffer = 3
    /\ Cardinality(RunHistoryFiles(store.files)) = 2

\* the names in the history directory that are ingrosmart-*.csv
HistoryCsvNames(stored) ==
    {q.name : q \in {r \in DOMAIN stored :
                        /\ r.dir = "history"
                        /\ r.name.prefix = "ingrosmart-"
                        /\ r.name.ext = ".csv"}}

\* the k greatest names of S in lexicographic order
Greatest(S, k) ==
    {n \in S : Cardinality({m \in S : LexLess(NameKey(n), NameKey(m))}) < k}

\* what holds of pruneHistory('fs', keepCount) whether or not it meets an
\* error: it never throws, it only removes history files named
\* ingrosmart-*.csv that are not among the keepCount greatest names, and it
\* removes nothing when keepCount <= 0 or there are at most keepCount of them
PruneIsSafe ==
    LET k == fn.in.keepCount
        was == HistoryCsvNames(fn.before)
        is == HistoryCsvNames(store.files)
    IN
    /\ ~fn.out.threw
    /\ store.files = fn.out.files
    /\ DOMAIN store.files \subseteq DOMAIN fn.before
    /\ \A q \in DOMAIN store.files : store.files[q] = fn.before[q]
    /\ \A q \in DOMAIN fn.before :
          ~(q.dir = "history" /\ q.name \in was) => q \in DOMAIN store.files
    /\ (k <= 0 \/ Cardinality(was) <= k => store.files = fn.before)
    /\ (k > 0 => Greatest(was, k) \subseteq is)

\* C27 (as stated): in the keep-N revision pruneHistory('fs', keepCount) with
\* keepCount > 0 leaves at most keepCount files named ingrosmart-*.csv in the
\* history directory, namely the keepCount greatest names; it deletes no other
\* file, deletes nothing when keepCount <= 0 or there are at most keepCount
\* such files, and never throws.
C27_PruneLeavesAtMostKeepCount ==
    fn.op = "pruneHistory" /\ store.revision = "keepN" /\ store.target = "fs" =>
        /\ PruneIsSafe
        /\ (fn.in.keepCount > 0 =>
               /\ Cardinality(HistoryCsvNames(store.files)) <= fn.in.keepCount
               /\ HistoryCsvNames(store.files) =
                      Greatest(HistoryCsvNames(fn.before), fn.in.keepCount))

\* C27 (amended): pruneHistory('fs', keepCount) never throws, deletes only
\* files named ingrosmart-*.csv outside the keepCount greatest names, and
\* deletes nothing when keepCount <= 0 or there are at most keepCount such
\* files; when readdir and every unlink succeed, it leaves exactly the
\* keepCount greatest names, so at most keepCount of them.
C27_PruneLeavesAtMostKeepCountUnlessError ==
    fn.op = "pruneHistory" /\ store.revision = "keepN" /\ store.target = "fs" =>
        /\ PruneIsSafe
        /\ (fn.in.keepCount > 0 /\ fn.in.listing = "ok" /\ fn.in.failAt = 0 =>
               /\ Cardinality(HistoryCsvNames(store.files)) <= fn.in.keepCount
               /\ HistoryCsvNames(store.files) =
                      Greatest(HistoryCsvNames(fn.before), fn.in.keepCount))

C27_Witness ==
    /\ fn.op = "pruneHistory" /\ store.revision = "keepN" /\ store.target = "fs"
    /\ fn.in.keepCount = 1 /\ fn.in.listing = "ok" /\ fn.in.failAt = 0
    /\ Cardinality(HistoryCsvNames(fn.before)) = 3
    /\ Len(fn.out.deleted) = 2
    /\ HistoryCsvNames(store.files) = {FileName("ingrosmart-", <<2>>, ".csv")}
    /\ [dir |-> "history", name |-> FileName("notes", <<>>, ".txt")] \in DOMAIN store.files

\* C30: in clickFirst/fillFirst, when the click or fill itself throws on a
\* selector found visible, the error is swallowed and the next selector is
\* still probed; the call returns true when a later action completes and
\* returns false, without throwing, when every attempted action threw.
C30_ActionFailureSwallowed ==
    fn.op \in {"clickFirst", "fillFirst"} =>
        LET acted == {fn.out.acted[k] : k \in DOMAIN fn.out.acted}
            probed == {fn.out.probed[k] : k \in DOMAIN fn.out.probed}
        IN
        /\ ~fn.out.threw
        /\ \A i \in acted :
              fn.in[i] = "actionThrows" /\ i < Len(fn.in) => i + 1 \in probed
        /\ \A i \in acted, j \in acted :
              i < j => fn.in[i] = "actionThrows"
        /\ fn.out.result = (\E i \in acted : fn.in[i] = "visible")
        /\ ((\A i \in acted : fn.in[i] = "actionThrows") =>
               /\ fn.out.result = FALSE
               /\ probed = DOMAIN fn.in)

C30_Witness ==
    /\ fn.op = "fillFirst"
    /\ fn.in = <<"actionThrows", "hidden", "visible">>
    /\ fn.out.acted = <<1, 3>> /\ fn.out.result /\ ~fn.out.threw

\* C24: a run ends with exit code 0 only if a login was verified, the
\* download returned a buffer the classifier accepted, and deliver wrote both
\* files; deliver is called at most once and never after withRetry used up
\* the login or download attempts; after such an exhaustion or a failed
\* delivery the run can only end with exit code 1.
C24_NoSilentPartialSuccess ==
    LET failed == \/ rt.st = "thrown"
                  \/ delivered # <<>> /\ files # <<"canonical", "history">>
    IN
    /\ Len(delivered) <= 1
    /\ (rt.st = "thrown" => delivered = <<>>)
    /\ (exitCode = 0 =>
           /\ \E j \in Logins : VerifiedLogin(j)
           /\ rt.taskName = "Download CSV" /\ rt.st = "returned"
           /\ result = rt.value
           /\ result.buffer.id \in okBuffers
           /\ delivered = <<[buffer |-> result.buffer, timestamp |-> "timestamp"]>>
           /\ files = <<"canonical", "history">>)
    /\ (failed => exitCode # 0 /\ pc \in {"login", "download", "catch", "exited"})
    /\ (pc = "exited" => exitCode = 1)
    /\ (exitCode = 1 => pc = "exited")

C24_Witness ==
    /\ exitCode = 1
    /\ Len(delivered) = 1
    /\ files = <<"canonical">>
    /\ \E j \in Logins : VerifiedLogin(j)

\* the run has ended: runAgent returned or the process exited
Terminated == pc \in {"done", "exited"}

\* C25: when every awaited step returns or times out, every run ends, with
\* exit code 0 or 1; in any run login is invoked at most 6 times, the export
\* fetch is issued at most 6 times and withRetry sleeps at most 4 times.
C25_TerminatesWithinBudget ==
    /\ [](/\ Cardinality(Logins) <= 6
          /\ Cardinality(Fetches) <= 6
          /\ Cardinality({i \in DOMAIN trace : trace[i].e = "sleep"}) <= 4
          /\ Len(sleeps) <= 4
          /\ (Terminated => exitCode \in {0, 1}))
    /\ <>Terminated

C25_Witness ==
    /\ Terminated
    /\ Cardinality(Logins) = 6
    /\ Cardinality(Fetches) = 6
    /\ Cardinality({i \in DOMAIN trace : trace[i].e = "sleep"}) = 4

\* the re-logins that failed: login calls inside the download attempt that
\* starts at i which threw
FailedRelogins(i) == {k \in LoginsIn(i) : trace[k].x = "fail"}

\* C28: when the re-login of a download attempt fails, that attempt issues no
\* second fetch and runs no further login; the login failure is the failure
\* withRetry gets for the attempt; the next attempt starts with an export
\* fetch, with no login before it.
C28_FailedReloginEndsAttempt ==
    \A i \in DownloadAttempts : \A k \in FailedRelogins(i) :
        /\ LoginsIn(i) = {k}
        /\ Cardinality(FetchesIn(i)) = 1
        /\ \A f \in FetchesIn(i) : f < k
        /\ \A n \in (k + 1)..AttemptEnd(i) : trace[n].e = "sleep"
        /\ AttemptEnd(i) <= k + 1
        /\ (AttemptEnd(i) = Len(trace) =>
               /\ pc \notin {"relogin", "refetch"}
               /\ rt.lastError.id = k
               /\ rt.st \in {"sleeping", "calling", "thrown"})
        /\ (AttemptEnd(i) < Len(trace) =>
               /\ trace[k + 1].e = "sleep"
               /\ trace[k + 2].e = "attempt"
               /\ trace[k + 3].e = "fetch")

C28_Witness ==
    \E i \in DownloadAttempts : \E k \in FailedRelogins(i) :
        /\ k + 3 <= Len(trace)
        /\ trace[k + 3].e = "fetch"
        /\ \A j \in Logins : j <= k

\* the export responses with status 200, a content type that is not HTML and
\* an empty body
EmptyOkResponses ==
    {resp \in Responses :
        /\ resp.kind = "response" /\ resp.status = 200
        /\ resp.contentType \notin {"TEXT/HTML; charset=UTF-8", "application/xhtml+xml"}
        /\ resp.body.len = 0}

\* the last fetch of the log was accepted and nothing followed it: no
\* re-login, no sleep, no further attempt
LastFetchAcceptedAndFinal ==
    /\ Fetches # {}
    /\ trace[Len(trace)].e = "fetch"
    /\ trace[Len(trace)].x = "ok"

\* C29: an export response with status 200, a content type that is not HTML
\* and an empty body is accepted: downloadCsv returns it with bytes = 0, the
\* download flow returns it with no re-login and no retry after it, the run
\* hands that empty buffer to deliver and, when deliver succeeds, ends with
\* exit code 0.
C29_EmptyBodyAccepted ==
    /\ \A resp \in EmptyOkResponses, captureOk \in BOOLEAN :
          LET r == DownloadCsv(resp, 1, config.screenshotOnError, captureOk) IN
          /\ r.returned
          /\ r.value.bytes = 0
          /\ r.value.buffer.body = EmptyBody
    /\ (rt.taskName = "Download CSV" /\ rt.st = "returned" /\ rt.value.bytes = 0 =>
           /\ LastFetchAcceptedAndFinal
           /\ rt.value.buffer.id = Len(trace)
           /\ (pc \notin {"download", "deliver"} =>
                  /\ result = rt.value
                  /\ delivered = <<[buffer |-> rt.value.buffer,
                                    timestamp |-> "timestamp"]>>)
           /\ (files = <<"canonical", "history">> =>
                  pc \in {"prune", "closePage", "closeContext", "closeBrowser", "done"})
           /\ (pc = "done" => exitCode = 0))

C29_Witness ==
    /\ pc = "done" /\ exitCode = 0
    /\ result # None /\ result.bytes = 0
    /\ Len(delivered) = 1 /\ delivered[1].buffer.body = EmptyBody
    /\ Cardinality(Fetches) = 1 /\ Cardinality(Logins) = 1

====
